---- MODULE Spec2Model ----
(***************************************************************************)
(* The Mine route of the annotation tool (src/app/routes/mine.tsx): the    *)
(* React component that starts a remote mining job, polls its status every *)
(* 250 ms and reconciles the polled snapshots with the resolution of the   *)
(* start call.                                                             *)
(*                                                                         *)
(* React state (useState) is held in variables that a setter updates at    *)
(* once; the only readers of state are closures, and a closure is taken    *)
(* when a handler or an effect is created, which the actions record        *)
(* explicitly (the job id and timer a poll callback closed over, the       *)
(* pollInterval value startMining closed over).  Refs (useRef) are read    *)
(* and written live.  The polling effect runs synchronously after a click  *)
(* (a discrete event), and as a step of its own (FlushEffect) after state  *)
(* was set from an asynchronous completion.                                *)
(*                                                                         *)
(* Progress values are counted in half points (Pt(50) = 100 half points    *)
(* = 50%), so that the 0.5-point tolerance is the integer Tol.             *)
(***************************************************************************)
EXTENDS Integers, Sequences, FiniteSets, TLC

\* ---------------------------------------------------------------- bounds
MaxRuns == 2
MaxInFlight == 1

\* ------------------------------------------------------- values and inputs
Pt(n) == 2 * n

NaN == -1000
Missing == -2000
Undefined == -1

Tol == 1
SamplingBand == 20
SavingBand == 95

JobIds == {"a", "b"}
UrlJobIds == {"a"}
NoJob == ""

MsgNull == "<null>"
MsgInitializing == "Initializing..."
MsgStarting == "Starting miner..."
MsgCompleted == "Mining completed successfully!"
MsgSampling == "Sampling neighborhoods..."
SamplingMessages == {MsgSampling}
Messages == {MsgNull, "m1"}

Null == [null |-> TRUE]

NoCtr == [absent |-> TRUE]
NoPhases == [absent |-> TRUE]
Ctr(c, t) == [current |-> c, total |-> t]
Bundle(sa, se, sv) == [sampling |-> sa, search_trials |-> se, saving |-> sv]
PhaseBundles == {NoPhases, Bundle(NoCtr, Ctr(2, 5), NoCtr)}

RawProgress == {Pt(-5), Pt(50) - 1, Pt(50), Pt(120), Missing}
Statuses == {"running", "completed"}

\* the body of a status response (res.data)
Snapshots ==
    [progress : RawProgress, status : Statuses, message : Messages, phases : PhaseBundles]

\* the body of the start call's response (response.data)
ExplicitUrl == <<"explicit", "u1">>
NoUrl == <<"none", "">>
StartResponses == [download_url : {NoUrl, ExplicitUrl}, patterns_count : {Undefined, 7}]

\* status bodies that also carry a result descriptor of their own
DescriptorSnapshots ==
    [progress : {Pt(50), Pt(100)}, status : Statuses, message : {MsgNull},
     phases : {NoPhases},
     download_url : {NoUrl, ExplicitUrl}, patterns_count : {Undefined, 7}]

\* the snapshots of one run observed in detail: a progress in each band and on
\* both sides of the tolerance, and phase bundles with each counter absent,
\* not subdivided (total 1) and subdivided
RichProgress == {Pt(10), Pt(50) - 1, Pt(50), Pt(97), Pt(120)}
RichMessages == {MsgNull, MsgSampling}
RichBundles ==
    {NoPhases, Bundle(NoCtr, NoCtr, NoCtr)}
        \cup {Bundle(sa, NoCtr, NoCtr) : sa \in {Ctr(0, 1), Ctr(3, 10), Ctr(5, 10)}}
        \cup {Bundle(NoCtr, se, NoCtr) : se \in {Ctr(0, 1), Ctr(2, 5), Ctr(4, 5)}}
        \cup {Bundle(NoCtr, NoCtr, sv) : sv \in {Ctr(1, 1), Ctr(2, 5)}}
        \cup {Bundle(Ctr(5, 10), Ctr(2, 5), Ctr(2, 5)),
              Bundle(Ctr(0, 1), Ctr(0, 1), Ctr(1, 1)),
              Bundle(NoCtr, Ctr(4, 5), Ctr(1, 1))}
RichStatuses == {"running"}
RichSnapshots ==
    [progress : RichProgress, status : RichStatuses, message : RichMessages,
     phases : RichBundles]

MinPatternSizes == {3}
MaxPatternSizes == {2, 5}

\* ------------------------------------------------------------ JS arithmetic
ToNumber(raw) == IF raw = Missing THEN NaN ELSE raw

MathMax(a, b) == IF a = NaN \/ b = NaN THEN NaN ELSE IF a >= b THEN a ELSE b

MathMin(a, b) == IF a = NaN \/ b = NaN THEN NaN ELSE IF a <= b THEN a ELSE b

Minus(a, b) == IF a = NaN THEN NaN ELSE a - b

Ge(a, b) == a # NaN /\ b # NaN /\ a >= b

Lt(a, b) == a # NaN /\ b # NaN /\ a < b

\* Math.min(100, Math.max(0, Number(data.progress) ?? 0)): NaN is not nullish
Clamp(raw) == MathMin(Pt(100), MathMax(0, ToNumber(raw)))

\* the fallback link with the job id left out
FallbackUrlNoJob(job) == <<"download-result", NoJob>>

FallbackUrl(job) == <<"download-result", job>>

\* ------------------------------------------------------------------- state
VARIABLES
    jobId, minPatternSize, maxPatternSize,      \* useState: form
    isMining, miningResult,                     \* useState: run
    miningProgress, miningStatus, phaseDetail,  \* useState: progress
    pollInterval,                               \* useState: timer id or 0
    pollIntervalRef, completedShownRef, maxProgressSeenRef,  \* useRef
    loadingHistory,                             \* useState: history fetch pending
    history,                                    \* useState: the fetched history
    currentJobId,   \* Settings, useState: the job marked as selected
    selectRequests, \* Settings: the select-job requests in flight
    location,       \* the route shown, with the job_id of its URL
    lastReply,      \* Settings: how the select-job request that returned last ended
    lastIssued,     \* Settings: the job of the select-job request issued last
    effect,       \* the polling effect as last run: its deps and its intervalId
    timers,       \* the timers setInterval created and clearInterval has not cleared
    timerOf,      \* timer id -> the run and job id its callback closed over
    polls,        \* status requests in flight: the timer that issued each
    posts,        \* start calls in flight, with what startMining closed over
    runs,         \* number of runs started so far (the run epoch)
    toastSuccess, \* success notifications shown since the latest run started
    finalized,    \* whether a poll callback finalized since the latest run started
    callOutcome,  \* the latest run's start call: pending, resolved or rejected;
                  \* refused when startMining returned without making one
    lastPoll,     \* how the status request that completed last in the latest run ended
    lastShown     \* phase -> the counter value last shown for it while the run is on

vars == <<jobId, minPatternSize, maxPatternSize, isMining, miningResult,
          miningProgress, miningStatus, phaseDetail, pollInterval,
          pollIntervalRef, completedShownRef, maxProgressSeenRef,
          loadingHistory, history, currentJobId, selectRequests, location,
          lastReply, lastIssued, effect, timers, timerOf, polls, posts, runs,
          toastSuccess, finalized, callOutcome, lastPoll, lastShown>>

form == <<jobId, minPatternSize, maxPatternSize>>
library == <<loadingHistory, history>>
settingsView == <<currentJobId, selectRequests, location, lastReply, lastIssued>>
progressState == <<miningProgress, miningStatus, phaseDetail>>
refs == <<pollIntervalRef, completedShownRef, maxProgressSeenRef>>
ghosts == <<toastSuccess, finalized, callOutcome, lastPoll, lastShown>>

MaxTimers == MaxRuns + 1

\* no select-job request has returned yet
NoReply == [job_id |-> NoJob, redirectToMine |-> FALSE, outcome |-> "none"]
NoTimer == 0

Phases == {"sampling", "search_trials", "saving"}
NeverShown == [p \in Phases |-> -1]

Init ==
    /\ jobId \in UrlJobIds \cup {NoJob}
    /\ minPatternSize = 3
    /\ maxPatternSize = 5
    /\ isMining = FALSE
    /\ miningResult = Null
    /\ miningProgress = 0
    /\ miningStatus = MsgInitializing
    /\ phaseDetail = Null
    /\ pollInterval = NoTimer
    /\ pollIntervalRef = NoTimer
    /\ completedShownRef = FALSE
    /\ maxProgressSeenRef = 0
    /\ loadingHistory = TRUE
    /\ history = <<>>
    /\ currentJobId = NoJob
    /\ selectRequests = {}
    /\ location = <<"mine", jobId>>
    /\ lastReply = NoReply
    /\ lastIssued = NoJob
    /\ effect = [isMining |-> FALSE, jobId |-> jobId, intervalId |-> NoTimer]
    /\ timers = {}
    /\ timerOf = [t \in 1 .. MaxTimers |-> [run |-> 0, jobId |-> NoJob]]
    /\ polls = [t \in 1 .. MaxTimers |-> 0]
    /\ posts = {}
    /\ runs = 0
    /\ toastSuccess = 0
    /\ finalized = FALSE
    /\ callOutcome = "none"
    /\ lastPoll = "none"
    /\ lastShown = NeverShown

\* ------------------------------------------------------ the polling effect
EffectPending == <<isMining, jobId>> # <<effect.isMining, effect.jobId>>

NextTimer == Cardinality({t \in 1 .. MaxTimers : timerOf[t].run # 0}) + 1

\* the effect body run without the cleanup of the run before it
RunEffectNoCleanup(im, job, run) ==
    LET id == NextTimer
    IN  IF im /\ job # NoJob
        THEN /\ miningProgress' = 0
             /\ miningStatus' = MsgStarting
             /\ phaseDetail' = Null
             /\ maxProgressSeenRef' = 0
             /\ timers' = timers \cup {id}
             /\ timerOf' = [timerOf EXCEPT ![id] = [run |-> run, jobId |-> job]]
             /\ pollIntervalRef' = id
             /\ pollInterval' = id
             /\ effect' = [isMining |-> im, jobId |-> job, intervalId |-> id]
        ELSE /\ UNCHANGED <<miningProgress, miningStatus, phaseDetail,
                            maxProgressSeenRef, timerOf, pollInterval, timers,
                            pollIntervalRef>>
             /\ effect' = [isMining |-> im, jobId |-> job, intervalId |-> NoTimer]

\* the effect without the four resets of lines 189-192
RunEffectNoReset(im, job, run) ==
    LET afterCleanup == timers \ {effect.intervalId}
        refAfterCleanup == IF effect.intervalId # NoTimer THEN NoTimer ELSE pollIntervalRef
        id == NextTimer
    IN  IF im /\ job # NoJob
        THEN /\ UNCHANGED <<miningProgress, miningStatus, phaseDetail, maxProgressSeenRef>>
             /\ timers' = afterCleanup \cup {id}
             /\ timerOf' = [timerOf EXCEPT ![id] = [run |-> run, jobId |-> job]]
             /\ pollIntervalRef' = id
             /\ pollInterval' = id
             /\ effect' = [isMining |-> im, jobId |-> job, intervalId |-> id]
        ELSE /\ UNCHANGED <<miningProgress, miningStatus, phaseDetail,
                            maxProgressSeenRef, timerOf, pollInterval>>
             /\ timers' = afterCleanup
             /\ pollIntervalRef' = refAfterCleanup
             /\ effect' = [isMining |-> im, jobId |-> job, intervalId |-> NoTimer]

\* The cleanup of the effect's last run, then its body under the new state
\* (im, job): the state the render that scheduled it has committed.
RunEffect(im, job, run) ==
    LET afterCleanup == timers \ {effect.intervalId}
        refAfterCleanup == IF effect.intervalId # NoTimer THEN NoTimer ELSE pollIntervalRef
        id == NextTimer
    IN  IF im /\ job # NoJob
        THEN /\ miningProgress' = 0
             /\ miningStatus' = MsgStarting
             /\ phaseDetail' = Null
             /\ maxProgressSeenRef' = 0
             /\ timers' = afterCleanup \cup {id}
             /\ timerOf' = [timerOf EXCEPT ![id] = [run |-> run, jobId |-> job]]
             /\ pollIntervalRef' = id
             /\ pollInterval' = id
             /\ effect' = [isMining |-> im, jobId |-> job, intervalId |-> id]
        ELSE /\ UNCHANGED <<miningProgress, miningStatus, phaseDetail,
                            maxProgressSeenRef, timerOf, pollInterval>>
             /\ timers' = afterCleanup
             /\ pollIntervalRef' = refAfterCleanup
             /\ effect' = [isMining |-> im, jobId |-> job, intervalId |-> NoTimer]

FlushEffect ==
    /\ EffectPending
    /\ RunEffect(isMining, jobId, runs)
    /\ UNCHANGED <<form, isMining, miningResult, completedShownRef, library, settingsView,
                   polls, posts, runs, ghosts>>

\* ------------------------------------------------------------- startMining
\* The form fields are controlled inputs; nothing validates them.
SetMinPatternSize(v) ==
    /\ minPatternSize' = v
    /\ UNCHANGED <<jobId, maxPatternSize, isMining, miningResult, progressState,
                   pollInterval, refs, library, settingsView, effect, timers, timerOf,
                   polls, posts, runs, ghosts>>

SetMaxPatternSize(v) ==
    /\ maxPatternSize' = v
    /\ UNCHANGED <<jobId, minPatternSize, isMining, miningResult, progressState,
                   pollInterval, refs, library, settingsView, effect, timers, timerOf,
                   polls, posts, runs, ghosts>>

\* startMining without its guard on the job id: the run starts with no job
StartMiningUnguarded ==
    /\ ~isMining
    /\ ~EffectPending
    /\ jobId = NoJob
    /\ runs < MaxRuns
    /\ runs' = runs + 1
    /\ isMining' = TRUE
    /\ miningResult' = Null
    /\ completedShownRef' = FALSE
    /\ posts' = posts \cup {[run |-> runs + 1, jobId |-> jobId,
                             pollInterval |-> pollInterval,
                             min_pattern_size |-> minPatternSize,
                             max_pattern_size |-> maxPatternSize]}
    /\ RunEffect(TRUE, jobId, runs + 1)
    /\ toastSuccess' = 0
    /\ finalized' = FALSE
    /\ callOutcome' = "pending"
    /\ lastPoll' = "none"
    /\ lastShown' = NeverShown
    /\ UNCHANGED <<form, library, settingsView, polls>>

\* startMining invoked with no job id: the error toast and the early return.
StartMiningNoJob ==
    /\ ~isMining
    /\ ~EffectPending
    /\ jobId = NoJob
    /\ callOutcome' = "refused"
    /\ UNCHANGED <<form, isMining, miningResult, progressState, pollInterval, refs,
                   library, settingsView, effect, timers, timerOf, polls, posts, runs,
                   toastSuccess, finalized, lastPoll, lastShown>>

\* startMining up to its await: the click on the Start Mining button, which is
\* rendered only while isMining is false, and the effect run that its render
\* commits.
StartMining ==
    /\ ~isMining
    /\ ~EffectPending
    /\ jobId # NoJob
    /\ runs < MaxRuns
    /\ runs' = runs + 1
    /\ isMining' = TRUE
    /\ miningResult' = Null
    /\ completedShownRef' = FALSE
    /\ posts' = posts \cup {[run |-> runs + 1, jobId |-> jobId,
                             pollInterval |-> pollInterval,
                             min_pattern_size |-> minPatternSize,
                             max_pattern_size |-> maxPatternSize]}
    /\ RunEffect(TRUE, jobId, runs + 1)
    /\ toastSuccess' = 0
    /\ finalized' = FALSE
    /\ callOutcome' = "pending"
    /\ lastPoll' = "none"
    /\ lastShown' = NeverShown
    /\ UNCHANGED <<form, library, settingsView, polls>>

\* the finally block of startMining, with the pollInterval it closed over
Finally(c) ==
    /\ isMining' = FALSE
    /\ lastShown' = NeverShown
    /\ IF c.pollInterval # NoTimer
       THEN /\ timers' = timers \ {c.pollInterval}
            /\ pollInterval' = NoTimer
       ELSE UNCHANGED <<timers, pollInterval>>

\* startMining after its await, the call having resolved with `resp`
PostResolve(c, resp) ==
    /\ c \in posts
    /\ posts' = posts \ {c}
    /\ miningResult' =
         [downloadUrl |-> IF resp.download_url # NoUrl THEN resp.download_url
                          ELSE FallbackUrl(c.jobId),
          patternsCount |-> resp.patterns_count]
    /\ toastSuccess' = IF completedShownRef THEN toastSuccess ELSE toastSuccess + 1
    /\ Finally(c)
    /\ callOutcome' = IF c.run = runs THEN "resolved" ELSE callOutcome
    /\ UNCHANGED <<form, progressState, refs, library, settingsView, effect, timerOf,
                   polls, runs, finalized, lastPoll>>

\* startMining after its await, the call having rejected: the catch block
PostReject(c) ==
    /\ c \in posts
    /\ posts' = posts \ {c}
    /\ Finally(c)
    /\ callOutcome' = IF c.run = runs THEN "rejected" ELSE callOutcome
    /\ UNCHANGED <<form, miningResult, progressState, refs, library, settingsView, effect,
                   timerOf, polls, runs, toastSuccess, finalized, lastPoll>>

\* ------------------------------------------------------- the poll callback
RECURSIVE Sum(_, _)
Sum(f, n) == IF n = 0 THEN 0 ELSE f[n] + Sum(f, n - 1)

InFlight == Sum(polls, MaxTimers)

\* setInterval fires the callback of a live timer: the status request is sent.
Tick(t) ==
    /\ t \in timers
    /\ InFlight < MaxInFlight
    /\ polls' = [polls EXCEPT ![t] = @ + 1]
    /\ UNCHANGED <<form, isMining, miningResult, progressState, pollInterval, refs,
                   library, settingsView, effect, timers, timerOf, posts, runs, ghosts>>

Answered(t) == [polls EXCEPT ![t] = @ - 1]

HasCtr(c) == c # NoCtr

\* setPhaseDetail(null) in place of the functional update
DropPhase(prev, c, phase) == Null

\* the functional update of setPhaseDetail: an older, larger count of the same
\* phase is kept
KeepLarger(prev, c, phase) ==
    IF prev # Null /\ prev.phase = phase /\ prev.current > c.current
    THEN prev
    ELSE [current |-> c.current, total |-> c.total, phase |-> phase]

\* the phase classification of one snapshot (progress is a number here)
Classify(prev, progress, phases) ==
    LET search == phases.search_trials
        sampling == phases.sampling
        saving == phases.saving
    IN  IF progress < Pt(SamplingBand)
        THEN IF HasCtr(sampling) /\ sampling.total > 1
             THEN KeepLarger(prev, sampling, "sampling")
             ELSE Null
        ELSE IF progress >= Pt(SamplingBand) /\ progress < Pt(SavingBand)
                /\ HasCtr(search) /\ search.total <= 1
        THEN Null
        ELSE IF progress >= Pt(SavingBand) /\ HasCtr(saving)
        THEN KeepLarger(prev, saving, "saving")
        ELSE IF progress >= Pt(SamplingBand) /\ HasCtr(search) /\ search.total > 1
        THEN KeepLarger(prev, search, "search_trials")
        ELSE prev

\* the displayed progress following a snapshot that is within the tolerance
ShownProgressTolerant(prev, progress) ==
    IF Ge(progress, Minus(prev, Tol)) THEN progress ELSE MathMax(prev, progress)

\* setMiningProgress(progress) in place of the functional update
ShownProgressLatest(prev, progress) == progress

\* the functional update of setMiningProgress
ShownProgress(prev, progress) == MathMax(prev, progress)

\* no test at all
AlwaysFresh(progress, prevMax) == TRUE

\* the test without the tolerance
NotRegressingStrict(progress, prevMax) == Ge(progress, prevMax)

\* the tolerance test both the message and the phase update are under
NotRegressing(progress, prevMax) == Ge(progress, Minus(prevMax, Tol))

\* completion taken from the status field alone
CompletedByStatusOnly(data, progress) == data.status = "completed"

Completed(data, progress) == data.status = "completed" \/ Ge(progress, Pt(100))

\* String(miningStatus).toLowerCase().includes("sampling")
MentionsSampling(msg) == msg \in SamplingMessages

\* the phase line rendered for every total
PhaseShownAnyTotal ==
    /\ phaseDetail # Null
    /\ (phaseDetail.phase # "search_trials" \/ ~MentionsSampling(miningStatus))

\* the condition under which the progress card renders the phase line
PhaseShown ==
    /\ phaseDetail # Null
    /\ phaseDetail.total > 1
    /\ ~(phaseDetail.phase = "search_trials" /\ phaseDetail.current = 0
            /\ phaseDetail.total = 1)
    /\ (phaseDetail.phase # "search_trials" \/ ~MentionsSampling(miningStatus))

\* the progress card is rendered in place of the button while isMining
PhaseDisplayed == isMining /\ PhaseShown

\* The callback after its await, the status request having answered with a
\* body `data`.
PollResponse(t, data) ==
    LET job == timerOf[t].jobId
        run == timerOf[t].run
        progress == Clamp(data.progress)
        prevMax == maxProgressSeenRef
        fresh == NotRegressing(progress, prevMax)
        status1 == IF fresh /\ data.message # MsgNull THEN data.message ELSE miningStatus
        phase1 == IF fresh /\ data.phases # NoPhases
                  THEN Classify(phaseDetail, progress, data.phases)
                  ELSE phaseDetail
        finalize == Completed(data, progress) /\ pollIntervalRef # NoTimer
    IN  /\ polls[t] > 0
        /\ polls' = Answered(t)
        /\ lastPoll' = IF run = runs /\ (data.status = "completed" \/ Ge(progress, Pt(100)))
                       THEN "done"
                       ELSE IF Lt(progress, miningProgress) THEN "lower" ELSE "ok"
        /\ maxProgressSeenRef' = MathMax(prevMax, progress)
        /\ phaseDetail' = phase1
        /\ IF finalize
           THEN /\ timers' = timers \ {pollIntervalRef}
                /\ pollIntervalRef' = NoTimer
                /\ pollInterval' = NoTimer
                /\ miningProgress' = Pt(100)
                /\ miningStatus' = IF data.message \in {MsgNull, ""} THEN MsgCompleted
                                   ELSE data.message
                /\ miningResult' = [downloadUrl |-> FallbackUrl(job),
                                    patternsCount |-> Undefined]
                /\ isMining' = FALSE
                /\ completedShownRef' = TRUE
                /\ toastSuccess' = toastSuccess + 1
                /\ finalized' = TRUE
           ELSE /\ miningProgress' = ShownProgress(miningProgress, progress)
                /\ miningStatus' = status1
                /\ UNCHANGED <<timers, pollIntervalRef, pollInterval, miningResult,
                               isMining, completedShownRef, toastSuccess, finalized>>
        /\ lastShown' = IF finalize THEN NeverShown
                        ELSE IF PhaseDisplayed'
                        THEN [lastShown EXCEPT ![phaseDetail'.phase] = phaseDetail'.current]
                        ELSE lastShown
        /\ UNCHANGED <<form, library, settingsView, effect, timerOf, posts, runs,
                       callOutcome>>

\* The status request answered with an empty body: `if (data)` skips it.
PollEmpty(t) ==
    /\ polls[t] > 0
    /\ polls' = Answered(t)
    /\ lastPoll' = "empty"
    /\ UNCHANGED <<form, isMining, miningResult, progressState, pollInterval, refs,
                   library, settingsView, effect, timers, timerOf, posts, runs,
                   toastSuccess, finalized, callOutcome, lastShown>>

\* a catch block that gives the run up: it stops the timer and the run
PollFailStopsPolling(t) ==
    /\ polls[t] > 0
    /\ polls' = Answered(t)
    /\ lastPoll' = "threw"
    /\ timers' = timers \ {pollIntervalRef}
    /\ pollIntervalRef' = NoTimer
    /\ isMining' = FALSE
    /\ UNCHANGED <<form, miningResult, progressState, pollInterval, completedShownRef,
                   maxProgressSeenRef, library, settingsView, effect, timerOf, posts, runs,
                   toastSuccess, finalized, callOutcome, lastShown>>

\* The status request threw: the catch block logs a warning.
PollFail(t) ==
    /\ polls[t] > 0
    /\ polls' = Answered(t)
    /\ lastPoll' = "threw"
    /\ UNCHANGED <<form, isMining, miningResult, progressState, pollInterval, refs,
                   library, settingsView, effect, timers, timerOf, posts, runs,
                   toastSuccess, finalized, callOutcome, lastShown>>

\* ---------------------------------------------------------------- initData
Entry(job, writer, importedOn) ==
    [job_id |-> job, writer_type |-> writer, imported_on |-> importedOn]

\* history.find(...): the first entry of the list among those at the indices
\* `hits` (the entries that satisfy the predicate), or Null
Find(list, hits) ==
    IF hits = {} THEN Null
    ELSE list[CHOOSE i \in hits : \A k \in hits : i <= k]

Abs(n) == IF n < 0 THEN -n ELSE n

\* dayjs(a).diff(dayjs(b)): the difference left in milliseconds
DiffMillis(a, b) == a - b

\* dayjs(a).diff(dayjs(b), 'second') on millisecond timestamps: truncated to
\* whole seconds, towards zero
DiffSeconds(a, b) ==
    LET d == a - b IN IF d >= 0 THEN d \div 1000 ELSE -((-d) \div 1000)

SiblingWindow == 60

\* the requested id kept as it is, in the history or not
KeepRequested(list, targetJobId) ==
    IF targetJobId # NoJob THEN Entry(targetJobId, "networkx", 0) ELSE list[1]

\* the fallback of line 103 alone, whatever was requested
BestNetworkX(list, targetJobId) ==
    LET hits == {i \in 1 .. Len(list) : list[i].writer_type = "networkx"}
    IN  IF hits # {} THEN Find(list, hits) ELSE list[1]

\* the entry initData selects from a non-empty history (bestMatch)
BestMatch(list, targetJobId) ==
    LET Where(P(_)) == {i \in 1 .. Len(list) : P(list[i])}
        IsTarget(h) == h.job_id = targetJobId
        IsNetworkX(h) == h.writer_type = "networkx"
        currentJob == IF targetJobId # NoJob THEN Find(list, Where(IsTarget)) ELSE Null
        IsBrother(h) ==
            /\ h.writer_type = "networkx"
            /\ Abs(DiffSeconds(h.imported_on, currentJob.imported_on)) < SiblingWindow
        brother == Find(list, Where(IsBrother))
        requested ==
            IF currentJob # Null /\ currentJob.writer_type = "mork"
            THEN IF brother # Null THEN brother ELSE currentJob
            ELSE currentJob
        networkx == Find(list, Where(IsNetworkX))
    IN  IF requested # Null THEN requested
        ELSE IF networkx # Null THEN networkx
        ELSE list[1]

SampleHistories ==
    { <<>>,
      <<Entry("a", "mork", 0), Entry("b", "networkx", 45000)>>,
      <<Entry("b", "mork", 500), Entry("a", "networkx", 0)>> }

\* initData after its await: api/history answered with {selected_job_id, history}.
\* Until then jobId is the job_id of the URL, which is what urlJobId reads.
InitDataResolve(selected_job_id, list) ==
    LET urlJobId == jobId
        targetJobId == IF urlJobId # NoJob THEN urlJobId ELSE selected_job_id
    IN  /\ loadingHistory
        /\ loadingHistory' = FALSE
        /\ jobId' = IF Len(list) > 0 THEN BestMatch(list, targetJobId).job_id
                    ELSE jobId
        /\ history' = list
        /\ UNCHANGED <<minPatternSize, maxPatternSize, isMining, miningResult,
                       progressState, pollInterval, refs, effect, timers, timerOf,
                       polls, posts, runs, ghosts, settingsView>>

\* initData's catch block: api/history failed
InitDataReject ==
    /\ loadingHistory
    /\ loadingHistory' = FALSE
    /\ UNCHANGED <<form, isMining, miningResult, progressState, pollInterval, refs,
                   effect, timers, timerOf, polls, posts, runs, ghosts, history,
                   settingsView>>

\* ---------------------------------------------------------------- Settings
\* The Settings route as mounted: the loader's selected_job_id is the current
\* job; the Mine page is not mounted and its state is the initial one.
InitSettings ==
    /\ location = <<"settings", NoJob>>
    /\ currentJobId \in JobIds \cup {NoJob}
    /\ selectRequests = {}
    /\ lastReply = NoReply
    /\ lastIssued = NoJob
    /\ jobId = NoJob
    /\ minPatternSize = 3
    /\ maxPatternSize = 5
    /\ isMining = FALSE
    /\ miningResult = Null
    /\ miningProgress = 0
    /\ miningStatus = MsgInitializing
    /\ phaseDetail = Null
    /\ pollInterval = NoTimer
    /\ pollIntervalRef = NoTimer
    /\ completedShownRef = FALSE
    /\ maxProgressSeenRef = 0
    /\ loadingHistory = TRUE
    /\ history = <<>>
    /\ effect = [isMining |-> FALSE, jobId |-> NoJob, intervalId |-> NoTimer]
    /\ timers = {}
    /\ timerOf = [t \in 1 .. MaxTimers |-> [run |-> 0, jobId |-> NoJob]]
    /\ polls = [t \in 1 .. MaxTimers |-> 0]
    /\ posts = {}
    /\ runs = 0
    /\ toastSuccess = 0
    /\ finalized = FALSE
    /\ callOutcome = "none"
    /\ lastPoll = "none"
    /\ lastShown = NeverShown

mineView == <<minPatternSize, maxPatternSize, isMining, miningResult, progressState,
              pollInterval, refs, library, timers, timerOf, polls, posts, runs, ghosts>>

Reply(r, outcome) ==
    [job_id |-> r.job_id, redirectToMine |-> r.redirectToMine, outcome |-> outcome]

\* switchAtomspace up to the request: a click on a graph card (no redirect) or
\* on its Mine Pattern button (redirect) posts api/select-job.
SwitchAtomspace(job_id, redirectToMine) ==
    /\ location[1] = "settings"
    /\ selectRequests' =
          selectRequests \cup {[job_id |-> job_id, redirectToMine |-> redirectToMine]}
    /\ lastIssued' = job_id
    /\ UNCHANGED <<form, effect, mineView, currentJobId, location, lastReply>>

\* the success callback with the state of the failed request set all the same
SelectJobFailOptimistic(r) ==
    /\ r \in selectRequests
    /\ selectRequests' = selectRequests \ {r}
    /\ currentJobId' = r.job_id
    /\ lastReply' = Reply(r, "failed")
    /\ UNCHANGED <<form, effect, mineView, location, lastIssued>>

\* api/select-job answered: the success callback of toast.promise.  navigate
\* changes the route to /mine?job_id=...; the Mine page, when this mounts it,
\* takes its job id from that URL.
SelectJobAck(r) ==
    /\ r \in selectRequests
    /\ selectRequests' = selectRequests \ {r}
    /\ currentJobId' = r.job_id
    /\ lastReply' = Reply(r, "ack")
    /\ location' = IF r.redirectToMine THEN <<"mine", r.job_id>> ELSE location
    /\ jobId' = IF r.redirectToMine /\ location[1] = "settings" THEN r.job_id ELSE jobId
    /\ effect' = [effect EXCEPT !.jobId = jobId']
    /\ UNCHANGED <<minPatternSize, maxPatternSize, mineView, lastIssued>>

\* api/select-job failed: toast.promise shows the error text, no callback runs
SelectJobFail(r) ==
    /\ r \in selectRequests
    /\ selectRequests' = selectRequests \ {r}
    /\ lastReply' = Reply(r, "failed")
    /\ UNCHANGED <<form, effect, mineView, currentJobId, location, lastIssued>>

\* ------------------------------------------------------------ specification
Next ==
    \/ StartMiningNoJob
    \/ StartMining
    \/ \E c \in posts, resp \in StartResponses : PostResolve(c, resp)
    \/ \E c \in posts : PostReject(c)
    \/ FlushEffect
    \/ \E t \in timers : Tick(t)
    \/ \E t \in 1 .. MaxTimers, data \in Snapshots : PollResponse(t, data)
    \/ \E t \in 1 .. MaxTimers : PollEmpty(t)
    \/ \E t \in 1 .. MaxTimers : PollFail(t)

\* The run machine while the form is left alone and api/history is outstanding.
Spec == Init /\ [][Next]_vars

\* The whole page: the form is edited and api/history answers at any time.
NextPage ==
    \/ Next
    \/ \E v \in MinPatternSizes : SetMinPatternSize(v)
    \/ \E v \in MaxPatternSizes : SetMaxPatternSize(v)
    \/ \E sel \in JobIds \cup {NoJob}, h \in SampleHistories : InitDataResolve(sel, h)
    \/ InitDataReject

SpecPage == Init /\ [][NextPage]_vars

\* The run machine under fair scheduling: a pending effect runs, a live timer
\* fires, and a status request in flight is answered.  The start call may stay
\* outstanding for ever.
Fairness ==
    /\ WF_vars(FlushEffect)
    /\ \A t \in 1 .. MaxTimers : WF_vars(Tick(t))
    /\ \A t \in 1 .. MaxTimers :
          WF_vars(PollEmpty(t) \/ PollFail(t)
                    \/ \E data \in Snapshots : PollResponse(t, data))

SpecLive == Init /\ [][Next]_vars /\ Fairness

\* One run whose start call stays outstanding, its snapshots observed in detail.
StartFirstRun == runs = 0 /\ StartMining

NextPhases ==
    \/ StartFirstRun
    \/ FlushEffect
    \/ \E t \in timers : Tick(t)
    \/ \E t \in 1 .. MaxTimers, data \in RichSnapshots : PollResponse(t, data)

SpecPhases == Init /\ [][NextPhases]_vars

\* The selector alone: api/history answers with any history of up to
\* MaxHistory entries: two job ids, one of them imported by both writers, and
\* networkx imports 5 s, 45 s, 59.5 s, 60 s and 90 s away from a mork import.
MaxHistory == 3

HistoryEntries ==
    { Entry("a", "mork", 0), Entry("a", "networkx", 90000),
      Entry("b", "networkx", 45000), Entry("b", "networkx", 59500),
      Entry("b", "networkx", 60000), Entry("b", "mork", 50000),
      Entry("b", "other", 0) }

RichHistories == UNION {[1 .. n -> HistoryEntries] : n \in 0 .. MaxHistory}

NextSelect ==
    \/ \E sel \in JobIds \cup {NoJob}, h \in RichHistories : InitDataResolve(sel, h)
    \/ InitDataReject

SpecSelect == Init /\ [][NextSelect]_vars

\* One run and the result it ends with: the history may arrive, and change
\* the job id, while the run is on; status bodies may carry a descriptor.
NextResult ==
    \/ StartFirstRun
    \/ \E sel \in JobIds \cup {NoJob}, h \in SampleHistories : InitDataResolve(sel, h)
    \/ \E c \in posts, resp \in StartResponses : PostResolve(c, resp)
    \/ FlushEffect
    \/ \E t \in timers : Tick(t)
    \/ \E t \in 1 .. MaxTimers, data \in DescriptorSnapshots : PollResponse(t, data)

SpecResult == Init /\ [][NextResult]_vars

\* The Settings route: cards are clicked and api/select-job answers at any time.
NextSettings ==
    \/ \E job \in JobIds, redirectToMine \in BOOLEAN : SwitchAtomspace(job, redirectToMine)
    \/ \E r \in selectRequests : SelectJobAck(r)
    \/ \E r \in selectRequests : SelectJobFail(r)

SpecSettings == InitSettings /\ [][NextSettings]_vars

\* The Settings route when api/select-job never fails.
NextAcks ==
    \/ \E job \in JobIds, redirectToMine \in BOOLEAN : SwitchAtomspace(job, redirectToMine)
    \/ \E r \in selectRequests : SelectJobAck(r)

SpecAcks == InitSettings /\ [][NextAcks]_vars

\* The timers over several runs: runs start and end by either signal, and the
\* history may arrive, and change the job id, at any time.
NextTimers ==
    \/ StartMining
    \/ \E sel \in JobIds \cup {NoJob}, h \in SampleHistories : InitDataResolve(sel, h)
    \/ \E c \in posts, resp \in StartResponses : PostResolve(c, resp)
    \/ \E c \in posts : PostReject(c)
    \/ FlushEffect
    \/ \E t \in timers : Tick(t)
    \/ \E t \in 1 .. MaxTimers, data \in DescriptorSnapshots : PollResponse(t, data)

SpecTimers == Init /\ [][NextTimers]_vars

\* ------------------------------------------------------------------ claims
\* A status request of timer t completed in this step.
PollDone(t) == polls'[t] < polls[t]

\* A status request of timer t answered in this step and its body was read.
SnapshotDone(t) == PollDone(t) /\ lastPoll' \in {"ok", "lower", "done"}

\* The start call `c` returned in this step.
CallDone(c) == c \in posts /\ c \notin posts'

TimerIds == 1 .. MaxTimers

\* The latest run is over: a poll callback finalized it or its start call resolved.
Terminal == runs > 0 /\ (finalized \/ callOutcome = "resolved")

\* C1: while one polling effect lasts (no step in which the effect starts a new
\* timer and resets the progress state), no step lowers the displayed progress,
\* whatever the snapshots report and in whatever order they arrive.
C1_ProgressNeverDecreases ==
    [][timerOf' = timerOf => ~Lt(miningProgress', miningProgress)]_vars

\* C1 witness: a run is going on, a snapshot with a progress below the displayed
\* one was processed last, and the displayed progress is still 50.
C1_Witness ==
    /\ isMining
    /\ lastPoll = "lower"
    /\ miningProgress = Pt(50)

\* C2: once the latest run is terminal, a snapshot of that run that arrives
\* leaves displayed progress, message, phase and the mining result unchanged.
C2_TerminalIsFinal ==
    [][\A t \in TimerIds :
         (Terminal /\ timerOf[t].run = runs /\ SnapshotDone(t))
            => UNCHANGED <<miningProgress, miningStatus, phaseDetail, miningResult>>]_vars

\* C3: the completion of a run is reported once: no second success notification
\* is shown after a run started.
C3_ReportedOnce == toastSuccess <= 1

\* C4: after the start call of the latest run resolved with no poll callback
\* having finalized, a poll response of that run neither replaces the mining
\* result nor finalizes again.
C4_CallFirstThenPollsAreNoOps ==
    [][\A t \in TimerIds :
         (callOutcome = "resolved" /\ ~finalized /\ timerOf[t].run = runs /\ PollDone(t))
            => UNCHANGED <<miningResult, toastSuccess, finalized>>]_vars

\* C5: when a poll callback finalized the latest run first, the resolution of
\* that run's start call leaves the mining result as the poll callback made it
\* and shows no further notification.
C5_PollFirstThenCallKeepsResult ==
    [][(finalized /\ callOutcome = "pending" /\ callOutcome' = "resolved")
          => UNCHANGED <<miningResult, toastSuccess>>]_vars

\* C6: a poll response whose request a timer of an earlier run issued changes
\* nothing of the state of the run that has started since.
C6_StalePollIsNoOp ==
    [][\A t \in TimerIds :
         (timerOf[t].run < runs /\ PollDone(t))
            => UNCHANGED <<miningProgress, miningStatus, phaseDetail,
                           maxProgressSeenRef, miningResult, isMining, timers,
                           pollIntervalRef, pollInterval>>]_vars

\* C7: the start call of an earlier run that returns (resolved or rejected)
\* after the next run started changes nothing of that run and reports nothing.
C7_StaleCallIsNoOp ==
    [][\A c \in posts :
         (c.run < runs /\ CallDone(c))
            => UNCHANGED <<miningResult, isMining, timers, pollInterval,
                           pollIntervalRef, toastSuccess>>]_vars

\* C8: once the start call of the latest run has rejected, the run is not
\* running, no mining result is ready and, the effect cleanup done, no poll
\* timer is left.
C8_RejectionIsFailure ==
    callOutcome = "rejected"
        => /\ miningResult = Null
           /\ ~isMining
           /\ (~EffectPending => timers = {})

\* C9: no start request is in flight whose maximum pattern size is below its
\* minimum pattern size.
C9_InvalidSizesRejected ==
    \A c \in posts : c.max_pattern_size >= c.min_pattern_size

\* C10: a status request that throws changes nothing but the set of requests in
\* flight: the reconciled state, the run, the result, the refs and the poll
\* timers stay as they are, so the timer goes on ticking.
C10_FailedTickIsSkipped ==
    [][\A t \in TimerIds :
         (PollDone(t) /\ lastPoll' = "threw")
            => UNCHANGED <<isMining, miningResult, miningProgress, miningStatus,
                           phaseDetail, pollInterval, pollIntervalRef,
                           completedShownRef, maxProgressSeenRef, timers,
                           toastSuccess, finalized, callOutcome>>]_vars

\* C10 witness: a status request of the running run threw, the run is still
\* running with its timer alive, and the next status request is in flight.
C10_Witness ==
    /\ isMining
    /\ lastPoll = "threw"
    /\ pollIntervalRef \in timers
    /\ polls[pollIntervalRef] > 0

\* C11: a poll response whose body has no numeric progress is skipped: the
\* displayed progress, the maximum progress seen, the message and the phase
\* keep their values.
C11_MalformedTickIsSkipped ==
    [][\A t \in TimerIds :
         PollDone(t) =>
            \A data \in Snapshots :
               (data.progress = Missing /\ PollResponse(t, data))
                  => UNCHANGED <<miningProgress, maxProgressSeenRef, miningStatus,
                                 phaseDetail>>]_vars

\* C12: while the latest run is running, a snapshot of that run with status
\* completed, or with a clamped progress of at least 100, finalizes it: the
\* displayed progress is 100, the run is not running, a mining result is
\* present and no poll timer of the run is left.
C12_CompletionFinalizes ==
    [][\A t \in TimerIds :
         (isMining /\ timerOf[t].run = runs /\ PollDone(t) /\ lastPoll' = "done")
            => /\ miningProgress' = Pt(100)
               /\ ~isMining'
               /\ miningResult' # Null
               /\ \A u \in timers' : timerOf[u].run # runs]_vars

\* C12 witness: a poll callback finalized the run while its start call is
\* pending: progress 100, not running, the fallback result, no timer left.
C12_Witness ==
    /\ finalized
    /\ lastPoll = "done"
    /\ callOutcome = "pending"
    /\ ~isMining
    /\ miningProgress = Pt(100)
    /\ miningResult # Null
    /\ timers = {}

\* C13: under fair scheduling, once a snapshot of the latest run has reported
\* completion or its start call has resolved, the page eventually shows the
\* run as over (not running, with a mining result), unless the start call of
\* the run rejects.
C13_EventuallyTerminal ==
    (lastPoll = "done" \/ callOutcome = "resolved")
        ~> ((~isMining /\ miningResult # Null) \/ callOutcome = "rejected")

\* The snapshots with progress p that the poll callback of timer t can have
\* processed in this step (none when the maximum seen did not move as p moves
\* it, which PollResponse requires: the test spares the enumeration).
Processing(t, p) ==
    IF maxProgressSeenRef' # MathMax(maxProgressSeenRef, Clamp(p)) THEN {}
    ELSE {data \in [progress : {p}, status : RichStatuses, message : RichMessages,
                    phases : RichBundles] : PollResponse(t, data)}

\* C14: a snapshot that does not report completion sets the displayed message
\* to its own message when its clamped progress is at least the maximum seen
\* before it minus 0.5 (and it carries a message), and leaves the displayed
\* message unchanged otherwise.
C14_MessageOnlyWhenNotRegressing ==
    [][\A t \in TimerIds :
         (PollDone(t) /\ maxProgressSeenRef # NaN) =>
            \A p \in RichProgress :
               (p # Missing /\ Clamp(p) < Pt(100)) =>
                  \A data \in Processing(t, p) :
                     miningStatus' = IF Clamp(p) >= maxProgressSeenRef - Tol
                                        /\ data.message # MsgNull
                                     THEN data.message
                                     ELSE miningStatus]_vars

\* C14 witness: the maximum seen is 50, a snapshot with a lower progress was
\* processed last, and the message shown is still the one the run started with.
C14_Witness ==
    /\ isMining
    /\ lastPoll = "lower"
    /\ maxProgressSeenRef = Pt(97)
    /\ miningStatus = MsgStarting

\* The phase classifier is applied to a snapshot with progress p that carries
\* a phases bundle: p, clamped, is below 100 (the snapshot does not report
\* completion) and at least the maximum seen before it minus 0.5.
Processed(p) ==
    /\ p # Missing
    /\ maxProgressSeenRef # NaN
    /\ Clamp(p) < Pt(100)
    /\ Clamp(p) >= maxProgressSeenRef - Tol

Subdivided(c) == c # NoCtr /\ c.total > 1

\* the phase shown after the step is `phase` when the counter c has total > 1,
\* and no phase is shown otherwise
ShowsOnly(phase, c) ==
    IF Subdivided(c)
    THEN PhaseDisplayed' /\ phaseDetail'.phase = phase
    ELSE ~PhaseDisplayed'

\* C15: after a processed snapshot with progress < 20 the phase shown is
\* sampling when the sampling counter has total > 1, and no phase is shown
\* otherwise, for every phases bundle.
C15_SamplingBand ==
    [][\A t \in TimerIds :
         PollDone(t) =>
            \A p \in RichProgress :
               (Processed(p) /\ Clamp(p) < Pt(20)) =>
                  \A data \in Processing(t, p) :
                     data.phases # NoPhases
                        => ShowsOnly("sampling", data.phases.sampling)]_vars

\* C15 witness: at progress 10 the sampling phase is shown with 3 of 10.
C15_Witness ==
    /\ PhaseDisplayed
    /\ miningProgress = Pt(10)
    /\ phaseDetail = [current |-> 3, total |-> 10, phase |-> "sampling"]

\* C16: after a processed snapshot with 20 <= progress < 95 the phase shown is
\* searching when the search counter has total > 1, and no phase is shown
\* otherwise, for every phases bundle and every phase shown before.
C16_SearchBand ==
    [][\A t \in TimerIds :
         PollDone(t) =>
            \A p \in RichProgress :
               (Processed(p) /\ Clamp(p) >= Pt(20) /\ Clamp(p) < Pt(95)) =>
                  \A data \in Processing(t, p) :
                     data.phases # NoPhases
                        => ShowsOnly("search_trials", data.phases.search_trials)]_vars

\* C17: after a processed snapshot with progress >= 95 the phase shown is
\* saving when the saving counter has total > 1, and no phase is shown
\* otherwise, for every phases bundle.
C17_SavingBand ==
    [][\A t \in TimerIds :
         PollDone(t) =>
            \A p \in RichProgress :
               (Processed(p) /\ Clamp(p) >= Pt(95)) =>
                  \A data \in Processing(t, p) :
                     data.phases # NoPhases
                        => ShowsOnly("saving", data.phases.saving)]_vars

\* C18: in every reachable state the phase shown has a counter with total > 1.
C18_ShownPhaseIsSubdivided == PhaseDisplayed => phaseDetail.total > 1

\* C18 witness: while the run is running the phase held is one whose counter
\* has total 1 (saving, 1 of 1), and it is not shown.
C18_Witness ==
    /\ isMining
    /\ phaseDetail = [current |-> 1, total |-> 1, phase |-> "saving"]
    /\ ~PhaseDisplayed

\* C19: within one run the counter value shown for a phase is never below the
\* value last shown for that same phase, also when another phase or no phase
\* was shown in between.
C19_PhaseCounterNeverDecreases ==
    [][(runs' = runs /\ PhaseDisplayed')
          => phaseDetail'.current >= lastShown[phaseDetail'.phase]]_vars

\* C20: a snapshot that does not report completion and whose clamped progress
\* is below the maximum seen before it minus 0.5 leaves the phase held, and
\* whether it is shown, unchanged.
C20_PhaseOnlyWhenNotRegressing ==
    [][\A t \in TimerIds :
         (PollDone(t) /\ maxProgressSeenRef # NaN) =>
            \A p \in RichProgress :
               (p # Missing /\ Clamp(p) < Pt(100)
                  /\ Clamp(p) < maxProgressSeenRef - Tol /\ Processing(t, p) # {})
                  => /\ UNCHANGED phaseDetail
                     /\ PhaseDisplayed' = PhaseDisplayed]_vars

\* C20 witness: the maximum seen is 97, the saving phase is shown, and the
\* snapshot processed last had a lower progress.
C20_Witness ==
    /\ PhaseDisplayed
    /\ lastPoll = "lower"
    /\ maxProgressSeenRef = Pt(97)
    /\ phaseDetail.phase = "saving"

\* ------------------------------------------------------ claims: selector
\* api/history answered in this step
Loaded == loadingHistory /\ ~loadingHistory'

\* the id requested from the selector when the server reports `sel` as
\* selected: the job_id of the URL, else `sel`
Requested(sel) == IF location[2] # NoJob THEN location[2] ELSE sel

\* the positions of the entries of `list` with job id `id`
WithId(list, id) == {i \in 1 .. Len(list) : list[i].job_id = id}

\* the entry the requested id matches: the first one of the list with that id
Matched(list, id) == list[CHOOSE i \in WithId(list, id) : \A k \in WithId(list, id) : i <= k]

\* the job ids of the networkx entries imported less than 60 s from entry m
SiblingIds(list, m) ==
    {list[i].job_id : i \in {k \in 1 .. Len(list) :
        /\ list[k].writer_type = "networkx"
        /\ list[k].imported_on - m.imported_on < 60000
        /\ m.imported_on - list[k].imported_on < 60000}}

\* the requested id matches an entry of the history in hand
Matches(list, id) == id # NoJob /\ WithId(list, id) # {}

C22_NonMorkIsKept ==
    [][Loaded =>
         \A sel \in JobIds \cup {NoJob} :
            (/\ InitDataResolve(sel, history')
             /\ Matches(history', Requested(sel))
             /\ Matched(history', Requested(sel)).writer_type # "mork")
            => jobId' = Requested(sel)]_vars

\* C22 witness: the URL asked for job a, whose first entry is its networkx
\* import; a networkx import of job b stands before it in the list, and a is
\* the job selected.
C22_Witness ==
    /\ ~loadingHistory
    /\ location[2] = "a"
    /\ Len(history) = 2
    /\ history[1].job_id = "b" /\ history[1].writer_type = "networkx"
    /\ history[2] = Entry("a", "networkx", 90000)
    /\ jobId = "a"

\* the job ids of the networkx entries of `list` with the latest import time
LatestNetworkXIds(list) ==
    {list[i].job_id : i \in {k \in 1 .. Len(list) :
        /\ list[k].writer_type = "networkx"
        /\ \A j \in 1 .. Len(list) :
              list[j].writer_type = "networkx" => list[j].imported_on <= list[k].imported_on}}

\* C23: when the requested id is absent or matches no entry and the history
\* is not empty, the job selected is that of the networkx entry imported
\* last, and that of the first entry when the history has no networkx entry.
C23_FallbackIsLatestNetworkX ==
    [][Loaded =>
         \A sel \in JobIds \cup {NoJob} :
            (/\ InitDataResolve(sel, history')
             /\ Len(history') > 0
             /\ ~Matches(history', Requested(sel)))
            => IF LatestNetworkXIds(history') # {}
               THEN jobId' \in LatestNetworkXIds(history')
               ELSE jobId' = history'[1].job_id]_vars

\* C24: when the history fetched is empty, no job is selected afterwards: the
\* active job id is empty, so that the start button is disabled.
C24_EmptyHistorySelectsNothing ==
    [][Loaded =>
         \A sel \in JobIds \cup {NoJob} :
            InitDataResolve(sel, <<>>) => jobId' = NoJob]_vars

\* ------------------------------------------------- claims: start and result
\* C25: while no job is selected, no step (a click on Start Mining among them)
\* sends a start request, starts a timer or issues a status request, and none
\* changes the running flag, the mining result or the progress state.
C25_NoJobStartsNothing ==
    [][jobId = NoJob =>
         /\ posts' = posts /\ timers' = timers /\ polls' = polls
         /\ UNCHANGED <<isMining, miningResult, progressState>>]_vars

\* C25 witness: startMining was invoked with no job and returned early; no
\* request is out, no timer runs and the page is as it was.
C25_Witness ==
    /\ jobId = NoJob
    /\ callOutcome = "refused"
    /\ posts = {} /\ timers = {} /\ ~isMining
    /\ miningResult = Null /\ miningProgress = 0

\* C26: a status request is issued only while a run is on, and by that run's
\* timer: none before the first run, none after the run ended.
C26_PollsOnlyWhileRunning ==
    [][\A t \in TimerIds :
         polls'[t] > polls[t] => (isMining /\ timerOf[t].run = runs)]_vars

\* C27: in every reachable state the displayed progress is a number from 0 to
\* 100.
C27_ProgressInRange ==
    miningProgress \in 0 .. Pt(100)

\* C28: when the start call of the run resolves before any poll finalized it,
\* the mining result carries the download reference and the pattern count of
\* the response; when the response has no download reference, the fallback
\* reference of the job id the run was started with.
C28_CallResultFromResponse ==
    [][\A c \in posts :
         (CallDone(c) /\ c.run = runs /\ ~finalized) =>
            \A resp \in StartResponses :
               PostResolve(c, resp) =>
                  /\ miningResult'.patternsCount = resp.patterns_count
                  /\ miningResult'.downloadUrl =
                        IF resp.download_url # NoUrl THEN resp.download_url
                        ELSE <<"download-result", c.jobId>>]_vars

\* C28 witness: the run was started for job a, the history then made b the
\* active job, and the call resolved with no download reference: the result
\* holds the fallback reference of job a.
C28_Witness ==
    /\ callOutcome = "resolved"
    /\ ~finalized
    /\ jobId = "b"
    /\ miningResult # Null
    /\ miningResult.downloadUrl = <<"download-result", "a">>

\* C29: when a status body finalizes the run, the mining result holds the
\* download reference the body carries, and the fallback reference only when
\* the body carries none.
C29_PollResultFromSnapshot ==
    [][\A t \in TimerIds :
         (PollDone(t) /\ pollIntervalRef # NoTimer /\ pollIntervalRef' = NoTimer) =>
            \A data \in DescriptorSnapshots :
               PollResponse(t, data) =>
                  miningResult'.downloadUrl =
                     IF data.download_url # NoUrl THEN data.download_url
                     ELSE <<"download-result", timerOf[t].jobId>>]_vars

\* ---------------------------------------------------------- claims: Settings
\* the select-job request r returned in this step
Returned(r) == r \in selectRequests /\ r \notin selectRequests'

\* C30: in the settings view the current job id changes only in a step in
\* which a select-job request for the new id is acknowledged; a step in which
\* a request fails changes neither the current job id nor the route.
C30_SelectOnlyOnAck ==
    [][/\ currentJobId' # currentJobId =>
           \E r \in selectRequests :
              Returned(r) /\ r.job_id = currentJobId' /\ lastReply'.outcome = "ack"
       /\ ((\E r \in selectRequests : Returned(r)) /\ lastReply'.outcome = "failed")
           => UNCHANGED <<currentJobId, location>>]_vars

\* C30 witness: Mine Pattern was clicked for job b while a was the current job
\* and the request failed: a is still current and the route is still Settings.
C30_Witness ==
    /\ lastReply = [job_id |-> "b", redirectToMine |-> TRUE, outcome |-> "failed"]
    /\ currentJobId = "a"
    /\ location = <<"settings", NoJob>>

\* ------------------------------------------------------- claims: behaviour
\* C31: a run reports one outcome only.  With a single run started, the state
\* never holds both a success (the success notification shown and a mining
\* result set) and a failure (the start call rejected, reported by the
\* "Mining failed" notification of the catch block).
C31_OneOutcome ==
    runs = 1 => ~(toastSuccess > 0 /\ miningResult # Null /\ callOutcome = "rejected")

\* C32: the step that starts a run leaves the reconciled state reset: no
\* mining result, the completion flag false, displayed progress 0, maximum
\* progress seen 0 and no phase, whatever the run before left behind.
C32_StartResets ==
    [][runs' = runs + 1 =>
         /\ miningResult' = Null
         /\ ~completedShownRef'
         /\ miningProgress' = 0
         /\ maxProgressSeenRef' = 0
         /\ phaseDetail' = Null]_vars

\* C32 witness: the first run was finalized by a status body (its start call
\* is still out, and only a finalization ends a run before that), so it left
\* progress 100, a result and the completion flag behind; the second run has
\* started, no status body was processed since, and the state is reset.
C32_Witness ==
    /\ runs = 2
    /\ isMining
    /\ lastPoll = "none"
    /\ \E c \in posts : c.run = 1
    /\ miningResult = Null
    /\ ~completedShownRef
    /\ miningProgress = 0
    /\ maxProgressSeenRef = 0
    /\ phaseDetail = Null

\* the job ids of the entries of `list`
IdsOf(list) == {list[i].job_id : i \in 1 .. Len(list)}

\* C33: when the history fetched is not empty, the job selected is the job of
\* one of its entries, whatever id was requested.
C33_SelectedIsInHistory ==
    [][Loaded =>
         \A sel \in JobIds \cup {NoJob} :
            (InitDataResolve(sel, history') /\ Len(history') > 0)
               => jobId' \in IdsOf(history')]_vars

\* C33 witness: the URL asked for job a, the history holds entries of job b
\* only, and b is the job selected.
C33_Witness ==
    /\ ~loadingHistory
    /\ location[2] = "a"
    /\ Len(history) > 0
    /\ "a" \notin IdsOf(history)
    /\ jobId = "b"

\* C34: when every select-job request succeeds, once all of them have been
\* acknowledged the current job is the job of the request issued last, in
\* whatever order the acknowledgements arrived.
C34_LastIssuedWins ==
    (selectRequests = {} /\ lastIssued # NoJob) => currentJobId = lastIssued

\* C35: at most one poll timer is live in every reachable state, and
\* pollIntervalRef is null or is that timer.
C35_OneTimer ==
    /\ Cardinality(timers) <= 1
    /\ pollIntervalRef = NoTimer \/ timers = {pollIntervalRef}

\* C35 witness: the job id changed from a to b during the second run; the
\* timer created for job b is the only live one and the ref holds it.
C35_Witness ==
    /\ runs = 2
    /\ isMining
    /\ pollIntervalRef # NoTimer
    /\ timers = {pollIntervalRef}
    /\ timerOf[pollIntervalRef] = [run |-> 2, jobId |-> "b"]
    /\ \E t \in TimerIds : timerOf[t] = [run |-> 2, jobId |-> "a"]

\* C36: while the run is on and no status body has finalized it, after every
\* status body processed the displayed progress is the maximum progress seen.
C36_ShownIsMaxSeen ==
    (isMining /\ ~finalized /\ lastPoll \in {"ok", "lower"})
        => miningProgress = maxProgressSeenRef

\* C36 witness: the run is on, the status body processed last reported less
\* than the 50 displayed, and both the display and the maximum seen are 50.
C36_Witness ==
    /\ isMining
    /\ ~finalized
    /\ lastPoll = "lower"
    /\ miningProgress = Pt(50)
    /\ maxProgressSeenRef = Pt(50)

====
